---- MODULE Spec2Model ----
(***************************************************************************)
(* Model of the ptrie prefix tree.                                         *)
(*                                                                         *)
(* Two variants live in the repository:                                    *)
(*   - src/src/trie.rs: the public Trie, an arena of nodes addressed by    *)
(*     index (nodes: Vec<TrieNode<K>>, values: Vec<V>) and its iterator;   *)
(*   - src/src/trie_node.rs: the recursive, owning TrieNode<K, V>          *)
(*     (insert with a per-node callback, remove_subtree, find_node).       *)
(* Specification Spec drives the arena Trie and TrieIterator,              *)
(* specification SpecNode drives one recursive root TrieNode.              *)
(*                                                                         *)
(* Option<T> is modelled as a sequence: None is << >>, Some(x) is <<x>>.   *)
(* Vec indices are 0-based as in the source: element i of a Vec v is       *)
(* v[i + 1].                                                               *)
(***************************************************************************)
EXTENDS Integers, Sequences, FiniteSets, TLC

\* The record kept of the last call: the method, its key and value arguments,
\* what it returned and the state it started from.
Call(kind, key, value, res, pre) ==
    [kind |-> kind, key |-> key, value |-> value, res |-> res, pre |-> pre]

\* ---------------------------------------------------------------- bounds
MaxSym == 2
MaxLen == 2
MaxVal == 2
MaxOps == 3

Sym == 1..MaxSym
Val == 1..MaxVal
Keys == UNION {[1..n -> Sym] : n \in 0..MaxLen}

VARIABLES
    nodes,      \* Trie.nodes: Vec<TrieNode<K>>   (arena variant)
    values,     \* Trie.values: Vec<V>
    stack,      \* TrieIterator.stack, or NoIter when no iterator is alive
    yielded,    \* the items a caller's loop has received from the iterator
    popped,     \* the node ids the iterator has taken off its stack
    root,       \* the root TrieNode<K, V>        (recursive variant)
    op,         \* the last call: its name, arguments, result and pre-state
    steps       \* number of mutating calls made so far

vars == <<nodes, values, stack, yielded, popped, root, op, steps>>

\* ---------------------------------------------------------------- Option, Vec
None == << >>
Some(x) == <<x>>

VecInsert(v, ix, e) == SubSeq(v, 1, ix) \o <<e>> \o SubSeq(v, ix + 1, Len(v))
VecRemove(v, ix) == SubSeq(v, 1, ix) \o SubSeq(v, ix + 2, Len(v))

\* slice::binary_search_by_key over a children list of (symbol, child) pairs:
\* [ok |-> TRUE, ix |-> position] or [ok |-> FALSE, ix |-> insertion point].
RECURSIVE binary_search_loop(_, _, _, _)
binary_search_loop(children, key, left, right) ==
    IF left >= right THEN [ok |-> FALSE, ix |-> left]
    ELSE LET mid == left + ((right - left) \div 2)
             k == children[mid + 1][1]
         IN  IF k < key THEN binary_search_loop(children, key, mid + 1, right)
             ELSE IF k > key THEN binary_search_loop(children, key, left, mid)
             ELSE [ok |-> TRUE, ix |-> mid]

binary_search_by_key(children, key) ==
    binary_search_loop(children, key, 0, Len(children))

\* ---------------------------------------------------------------- node accessors
\* set_value / get_value / may_be_leaf are the same for both variants: the
\* value slot holds a V in the recursive node and a usize (an index into
\* Trie.values) in the arena node.
TrieNode_set_value(self, value) == [self EXCEPT !.value = Some(value)]

TrieNode_get_value(self) == self.value

TrieNode_may_be_leaf(self) == self.value # None

\* ---------------------------------------------------------------- arena node
\* TrieNode<K> of the arena variant: value is Option<usize> (an index into
\* Trie.values), children is a Vec of (symbol, node id) sorted by symbol.
ArenaNode_new(value) == [value |-> value, children |-> << >>]

ArenaNode_find(node, c) ==
    LET r == binary_search_by_key(node.children, c)
    IN  IF r.ok THEN Some(node.children[r.ix + 1][2]) ELSE None

ArenaNode_insert(node, c, child_id) ==
    LET r == binary_search_by_key(node.children, c)
    IN  [node EXCEPT !.children = VecInsert(@, r.ix, <<c, child_id>>)]


\* ---------------------------------------------------------------- Trie
Trie_new == [nodes |-> << >>, values |-> << >>]

\* is_empty as "the root has no children"
is_empty_mut_root_children(ns) == ns = << >> \/ ns[1].children = << >>

is_empty(ns) == ns = << >>

\* push a fresh node, return the grown arena and the new node's id
create_new_node(ns) ==
    [nodes |-> Append(ns, ArenaNode_new(None)), id |-> Len(ns)]

\* the `for c in key` loop of insert: find the child or create and link it
\* walk that stops at the last node it finds instead of creating the
\* missing child
RECURSIVE insert_walk_mut_stop(_, _, _)
insert_walk_mut_stop(ns, node_id, key) ==
    IF key = << >> THEN [nodes |-> ns, id |-> node_id]
    ELSE LET c == Head(key)
             f == ArenaNode_find(ns[node_id + 1], c)
         IN  IF f # None THEN insert_walk_mut_stop(ns, f[1], Tail(key))
             ELSE [nodes |-> ns, id |-> node_id]

\* walk that links every node it creates under node 0
RECURSIVE insert_walk_mut_flat(_, _, _)
insert_walk_mut_flat(ns, node_id, key) ==
    IF key = << >> THEN [nodes |-> ns, id |-> node_id]
    ELSE LET c == Head(key)
             f == ArenaNode_find(ns[node_id + 1], c)
         IN  IF f # None THEN insert_walk_mut_flat(ns, f[1], Tail(key))
             ELSE LET cr == create_new_node(ns)
                      linked == [cr.nodes EXCEPT ![1] =
                                    ArenaNode_insert(@, c, cr.id)]
                  IN  insert_walk_mut_flat(linked, cr.id, Tail(key))

RECURSIVE insert_walk(_, _, _)
insert_walk(ns, node_id, key) ==
    IF key = << >> THEN [nodes |-> ns, id |-> node_id]
    ELSE LET c == Head(key)
             f == ArenaNode_find(ns[node_id + 1], c)
         IN  IF f # None THEN insert_walk(ns, f[1], Tail(key))
             ELSE LET cr == create_new_node(ns)
                      linked == [cr.nodes EXCEPT ![node_id + 1] =
                                    ArenaNode_insert(@, c, cr.id)]
                  IN  insert_walk(linked, cr.id, Tail(key))

\* the `match self.nodes[node_id].get_value()` of insert, then set_value
insert_store_mut_noset(ns, vs, node_id, value) ==
    LET cur == TrieNode_get_value(ns[node_id + 1])
    IN  IF cur # None
        THEN [nodes |-> ns, values |-> [vs EXCEPT ![cur[1] + 1] = value]]
        ELSE [nodes |-> ns, values |-> Append(vs, value)]

insert_store_mut_push(ns, vs, node_id, value) ==
    LET vs1 == Append(vs, value)
        value_id == Len(vs1) - 1
    IN  [nodes  |-> [ns EXCEPT ![node_id + 1] = TrieNode_set_value(@, value_id)],
         values |-> vs1]

\* insert that overwrites in place but always records the last value id
insert_store_mut_lastid(ns, vs, node_id, value) ==
    LET cur == TrieNode_get_value(ns[node_id + 1])
        vs1 == IF cur # None THEN [vs EXCEPT ![cur[1] + 1] = value]
               ELSE Append(vs, value)
        value_id == Len(vs1) - 1
    IN  [nodes  |-> [ns EXCEPT ![node_id + 1] = TrieNode_set_value(@, value_id)],
         values |-> vs1]

insert_store(ns, vs, node_id, value) ==
    LET cur == TrieNode_get_value(ns[node_id + 1])
        vs1 == IF cur # None THEN [vs EXCEPT ![cur[1] + 1] = value]
               ELSE Append(vs, value)
        value_id == IF cur # None THEN cur[1] ELSE Len(vs1) - 1
    IN  [nodes  |-> [ns EXCEPT ![node_id + 1] = TrieNode_set_value(@, value_id)],
         values |-> vs1]

Trie_insert(ns, vs, key, value) ==
    LET start == IF is_empty(ns) THEN create_new_node(ns)
                 ELSE [nodes |-> ns, id |-> 0]
        w == insert_walk(start.nodes, start.id, key)
    IN  insert_store(w.nodes, vs, w.id, value)

Trie_clear_mut_keep_nodes(ns, vs) == [nodes |-> ns, values |-> << >>]

\* clear that keeps a bare root node
Trie_clear_mut_keep_root(ns, vs) ==
    [nodes  |-> IF ns = << >> THEN << >> ELSE <<ArenaNode_new(None)>>,
     values |-> << >>]

Trie_clear(ns, vs) == [nodes |-> << >>, values |-> << >>]

\* find_node: None on an empty arena, else walk from node 0
RECURSIVE find_node_walk(_, _, _)
find_node_walk(ns, node_id, key) ==
    IF key = << >> THEN Some(node_id)
    ELSE LET f == ArenaNode_find(ns[node_id + 1], Head(key))
         IN  IF f # None THEN find_node_walk(ns, f[1], Tail(key)) ELSE None

find_node(ns, key) ==
    IF ns = << >> THEN None ELSE find_node_walk(ns, 0, key)

\* contains_key that answers for the node alone, without may_be_leaf
contains_key_mut_found(ns, vs, key) ==
    IF vs = << >> /\ ns = << >> THEN FALSE
    ELSE find_node(ns, key) # None

contains_key(ns, vs, key) ==
    IF vs = << >> /\ ns = << >> THEN FALSE
    ELSE LET n == find_node(ns, key)
         IN  IF n # None THEN TrieNode_may_be_leaf(ns[n[1] + 1]) ELSE FALSE

\* Vec::get: None when the index is out of range
VecGet(v, i) == IF i < Len(v) THEN Some(v[i + 1]) ELSE None

get(ns, vs, key) ==
    LET n == find_node(ns, key)
        value_id == IF n # None THEN TrieNode_get_value(ns[n[1] + 1]) ELSE None
    IN  IF value_id # None THEN VecGet(vs, value_id[1]) ELSE None

\* Result<(), TrieError>
Ok == <<"Ok">>
NotFound(msg) == <<"NotFound", msg>>

Trie_set_value_mut_create(ns, vs, key, value) ==
    LET n == find_node(ns, key)
        value_id == IF n # None THEN TrieNode_get_value(ns[n[1] + 1]) ELSE None
    IN  IF n = None
        THEN [res |-> NotFound("Key not found"), nodes |-> ns, values |-> vs]
        ELSE IF value_id = None
        THEN [res |-> NotFound("Value not found"),
              nodes |-> [ns EXCEPT ![n[1] + 1] = TrieNode_set_value(@, Len(vs))],
              values |-> Append(vs, value)]
        ELSE [res |-> Ok, nodes |-> ns,
              values |-> [vs EXCEPT ![value_id[1] + 1] = value]]

Trie_set_value(ns, vs, key, value) ==
    LET n == find_node(ns, key)
    IN  IF n = None
        THEN [res |-> NotFound("Key not found"), nodes |-> ns, values |-> vs]
        ELSE LET value_id == TrieNode_get_value(ns[n[1] + 1])
             IN  IF value_id = None
                 THEN [res |-> NotFound("Value not found"),
                       nodes |-> ns, values |-> vs]
                 ELSE [res |-> Ok, nodes |-> ns,
                       values |-> [vs EXCEPT ![value_id[1] + 1] = value]]

\* A call either returns a value or panics (index out of bounds).
Ret(v) == [panic |-> FALSE, val |-> v]
Panic == [panic |-> TRUE, val |-> << >>]

\* find_prefixes: no emptiness guard; self.nodes[node_id] is indexed directly
RECURSIVE find_prefixes_loop(_, _, _, _, _)
find_prefixes_loop(ns, vs, node_id, key, prefixes) ==
    IF key = << >> THEN Ret(prefixes)
    ELSE IF node_id >= Len(ns) THEN Panic
    ELSE LET f == ArenaNode_find(ns[node_id + 1], Head(key))
         IN  IF f = None THEN Ret(prefixes)
             ELSE LET value_id == TrieNode_get_value(ns[f[1] + 1])
                  IN  find_prefixes_loop(ns, vs, f[1], Tail(key),
                          IF value_id # None
                          THEN Append(prefixes, vs[value_id[1] + 1])
                          ELSE prefixes)

find_prefixes_mut_root(ns, vs, key) ==
    IF ns # << >> /\ TrieNode_get_value(ns[1]) # None
    THEN find_prefixes_loop(ns, vs, 0, key,
             <<vs[TrieNode_get_value(ns[1])[1] + 1]>>)
    ELSE find_prefixes_loop(ns, vs, 0, key, << >>)

find_prefixes(ns, vs, key) == find_prefixes_loop(ns, vs, 0, key, << >>)

RECURSIVE find_longest_prefix_mut_first_loop(_, _, _, _)
find_longest_prefix_mut_first_loop(ns, node_id, key, last_value_id) ==
    IF key = << >> THEN last_value_id
    ELSE LET f == ArenaNode_find(ns[node_id + 1], Head(key))
         IN  IF f = None THEN last_value_id
             ELSE find_longest_prefix_mut_first_loop(ns, f[1], Tail(key),
                      IF TrieNode_may_be_leaf(ns[f[1] + 1]) /\ last_value_id = None
                      THEN TrieNode_get_value(ns[f[1] + 1])
                      ELSE last_value_id)

find_longest_prefix_mut_first(ns, vs, key) ==
    IF ns = << >> THEN None
    ELSE LET id == find_longest_prefix_mut_first_loop(ns, 0, key, None)
         IN  IF id # None THEN Some(vs[id[1] + 1]) ELSE None

RECURSIVE find_longest_prefix_loop(_, _, _, _)
find_longest_prefix_loop(ns, node_id, key, last_value_id) ==
    IF key = << >> THEN last_value_id
    ELSE LET f == ArenaNode_find(ns[node_id + 1], Head(key))
         IN  IF f = None THEN last_value_id
             ELSE find_longest_prefix_loop(ns, f[1], Tail(key),
                      IF TrieNode_may_be_leaf(ns[f[1] + 1])
                      THEN TrieNode_get_value(ns[f[1] + 1])
                      ELSE last_value_id)

find_longest_prefix(ns, vs, key) ==
    IF ns = << >> THEN None
    ELSE LET id == find_longest_prefix_loop(ns, 0, key, None)
         IN  IF id # None THEN Some(vs[id[1] + 1]) ELSE None

\* dfs: the node's own value, then each child's subtree in children order
RECURSIVE dfs_mut_postorder(_, _, _)
RECURSIVE dfs_mut_postorder_children(_, _, _, _)
dfs_mut_postorder_children(ns, vs, children, i) ==
    IF i > Len(children) THEN << >>
    ELSE dfs_mut_postorder(ns, vs, children[i][2])
         \o dfs_mut_postorder_children(ns, vs, children, i + 1)

dfs_mut_postorder(ns, vs, node_id) ==
    LET node == ns[node_id + 1]
        value_id == TrieNode_get_value(node)
    IN  dfs_mut_postorder_children(ns, vs, node.children, 1)
        \o (IF value_id # None THEN <<vs[value_id[1] + 1]>> ELSE << >>)

\* dfs that visits the children in the order of their node ids (the order in
\* which they were created) instead of the order of the children list
RECURSIVE dfs_mut_by_id(_, _, _)
RECURSIVE dfs_mut_by_id_children(_, _, _, _)
dfs_mut_by_id_children(ns, vs, children, todo) ==
    IF todo = {} THEN << >>
    ELSE LET i == CHOOSE i \in todo : \A j \in todo : children[i][2] <= children[j][2]
         IN  dfs_mut_by_id(ns, vs, children[i][2])
             \o dfs_mut_by_id_children(ns, vs, children, todo \ {i})

dfs_mut_by_id(ns, vs, node_id) ==
    LET node == ns[node_id + 1]
        value_id == TrieNode_get_value(node)
    IN  (IF value_id # None THEN <<vs[value_id[1] + 1]>> ELSE << >>)
        \o dfs_mut_by_id_children(ns, vs, node.children, 1..Len(node.children))

RECURSIVE dfs(_, _, _)
RECURSIVE dfs_children(_, _, _, _)
dfs_children(ns, vs, children, i) ==
    IF i > Len(children) THEN << >>
    ELSE dfs(ns, vs, children[i][2]) \o dfs_children(ns, vs, children, i + 1)

dfs(ns, vs, node_id) ==
    LET node == ns[node_id + 1]
        value_id == TrieNode_get_value(node)
    IN  (IF value_id # None THEN <<vs[value_id[1] + 1]>> ELSE << >>)
        \o dfs_children(ns, vs, node.children, 1)

find_postfixes(ns, vs, prefix) ==
    LET n == find_node(ns, prefix)
    IN  IF n # None THEN dfs(ns, vs, n[1]) ELSE << >>

\* ---------------------------------------------------------------- TrieIterator
NoIter == <<"none">>

\* TrieIterator::new: the stack starts with (node 0, empty path)
TrieIterator_new == << <<0, << >> >> >>

\* the `for &(ref key_part, child_id) in &node.children` loop of next
RECURSIVE push_children(_, _, _, _)
push_children(stk, children, path, i) ==
    IF i > Len(children) THEN stk
    ELSE push_children(Append(stk, <<children[i][2], Append(path, children[i][1])>>),
                       children, path, i + 1)

\* next: pop until a node with a value is found; [stack, res, pops] where
\* res is Ret(Some(<<path, value>>)), Ret(None) or Panic and pops lists the
\* node ids the call took off the stack, in order
RECURSIVE TrieIterator_next_mut_skip(_, _, _)
TrieIterator_next_mut_skip(ns, vs, stk) ==
    IF stk = << >> THEN [stack |-> stk, res |-> Ret(None), pops |-> << >>]
    ELSE LET top == stk[Len(stk)]
             rest == SubSeq(stk, 1, Len(stk) - 1)
         IN  IF top[1] >= Len(ns)
             THEN [stack |-> rest, res |-> Panic, pops |-> <<top[1]>>]
             ELSE LET node == ns[top[1] + 1]
                      value_id == TrieNode_get_value(node)
                  IN  IF value_id # None
                      THEN [stack |-> rest,
                            res |-> Ret(Some(<<top[2], vs[value_id[1] + 1]>>)),
                            pops |-> <<top[1]>>]
                      ELSE LET r == TrieIterator_next_mut_skip(ns, vs,
                                        push_children(rest, node.children, top[2], 1))
                           IN  [r EXCEPT !.pops = <<top[1]>> \o @]

\* next that returns None as soon as it pops a node without a value
TrieIterator_next_mut_stop(ns, vs, stk) ==
    IF stk = << >> THEN [stack |-> stk, res |-> Ret(None), pops |-> << >>]
    ELSE LET top == stk[Len(stk)]
             rest == SubSeq(stk, 1, Len(stk) - 1)
         IN  IF top[1] >= Len(ns)
             THEN [stack |-> rest, res |-> Panic, pops |-> <<top[1]>>]
             ELSE LET node == ns[top[1] + 1]
                      pushed == push_children(rest, node.children, top[2], 1)
                      value_id == TrieNode_get_value(node)
                  IN  [stack |-> pushed,
                       res |-> IF value_id # None
                               THEN Ret(Some(<<top[2], vs[value_id[1] + 1]>>))
                               ELSE Ret(None),
                       pops |-> <<top[1]>>]

RECURSIVE TrieIterator_next(_, _, _)
TrieIterator_next(ns, vs, stk) ==
    IF stk = << >> THEN [stack |-> stk, res |-> Ret(None), pops |-> << >>]
    ELSE LET top == stk[Len(stk)]
             rest == SubSeq(stk, 1, Len(stk) - 1)
         IN  IF top[1] >= Len(ns)
             THEN [stack |-> rest, res |-> Panic, pops |-> <<top[1]>>]
             ELSE LET node == ns[top[1] + 1]
                      pushed == push_children(rest, node.children, top[2], 1)
                      value_id == TrieNode_get_value(node)
                  IN  IF value_id # None
                      THEN [stack |-> pushed,
                            res |-> Ret(Some(<<top[2], vs[value_id[1] + 1]>>)),
                            pops |-> <<top[1]>>]
                      ELSE LET r == TrieIterator_next(ns, vs, pushed)
                           IN  [r EXCEPT !.pops = <<top[1]>> \o @]

\* ---------------------------------------------------------------- TrieNode<K, V>
\* The recursive variant: value is Option<V>, children is a Vec of
\* (symbol, TrieNode) pairs.
TrieNode_new == [value |-> None, children |-> << >>]

\* The callers' value_cb closures. A closure is its captured state:
\*   kind "noop":  touches nothing;
\*   kind "store": sets the value of the node it is called on with cur = at;
\* both append (cur, node as seen) to their log.
CbNoop == [kind |-> "noop", at |-> None, v |-> 0, log |-> << >>]
CbStore(at, v) == [kind |-> "store", at |-> at, v |-> v, log |-> << >>]

value_cb(cb, node, cur) ==
    [node |-> IF cb.kind = "store" /\ cur = cb.at
              THEN TrieNode_set_value(node, cb.v) ELSE node,
     cb   |-> [cb EXCEPT !.log = Append(@, <<cur, node>>)]]

\* key.enumerate()
enumerate(key) == [i \in 1..Len(key) |-> <<i - 1, key[i]>>]

\* cur of the callback invocation on the node a key of this length ends at
TerminalCur(key) == IF key = << >> THEN None ELSE Some(Len(key) - 1)

\* insert that appends a new child (Vec::push) instead of inserting it at the
\* position the binary search returned
RECURSIVE TrieNode_insert_mut_push(_, _, _, _)
TrieNode_insert_mut_push(self, key, cb, cur) ==
    LET called == value_cb(cb, self, cur)
        s1 == called.node
    IN  IF key # << >>
        THEN LET iterx == Head(key)[1]
                 part == Head(key)[2]
                 r == binary_search_by_key(s1.children, part)
                 ch == IF r.ok THEN s1.children
                       ELSE Append(s1.children, <<part, TrieNode_new>>)
                 ix == IF r.ok THEN r.ix ELSE Len(ch) - 1
                 sub == TrieNode_insert_mut_push(ch[ix + 1][2], Tail(key),
                                                 called.cb, Some(iterx))
             IN  [node |-> [s1 EXCEPT !.children =
                               [ch EXCEPT ![ix + 1] = <<part, sub.node>>]],
                  res  |-> sub.res,
                  cb   |-> sub.cb]
        ELSE [node |-> s1, res |-> s1.value, cb |-> called.cb]

\* insert that hands its own cur on to the child instead of the position of
\* the symbol it consumed
RECURSIVE TrieNode_insert_mut_cur(_, _, _, _)
TrieNode_insert_mut_cur(self, key, cb, cur) ==
    LET called == value_cb(cb, self, cur)
        s1 == called.node
    IN  IF key # << >>
        THEN LET iterx == Head(key)[1]
                 part == Head(key)[2]
                 r == binary_search_by_key(s1.children, part)
                 ch == IF r.ok THEN s1.children
                       ELSE VecInsert(s1.children, r.ix, <<part, TrieNode_new>>)
                 sub == TrieNode_insert_mut_cur(ch[r.ix + 1][2], Tail(key),
                                                called.cb, cur)
             IN  [node |-> [s1 EXCEPT !.children =
                               [ch EXCEPT ![r.ix + 1] = <<part, sub.node>>]],
                  res  |-> sub.res,
                  cb   |-> sub.cb]
        ELSE [node |-> s1, res |-> s1.value, cb |-> called.cb]

\* insert: [node |-> self afterwards, res |-> the Option returned,
\*          cb |-> the closure afterwards]
RECURSIVE TrieNode_insert(_, _, _, _)
TrieNode_insert(self, key, cb, cur) ==
    LET called == value_cb(cb, self, cur)
        s1 == called.node
    IN  IF key # << >>
        THEN LET iterx == Head(key)[1]
                 part == Head(key)[2]
                 r == binary_search_by_key(s1.children, part)
                 ch == IF r.ok THEN s1.children
                       ELSE VecInsert(s1.children, r.ix, <<part, TrieNode_new>>)
                 sub == TrieNode_insert(ch[r.ix + 1][2], Tail(key), called.cb,
                                        Some(iterx))
             IN  [node |-> [s1 EXCEPT !.children =
                               [ch EXCEPT ![r.ix + 1] = <<part, sub.node>>]],
                  res  |-> sub.res,
                  cb   |-> sub.cb]
        ELSE [node |-> s1, res |-> s1.value, cb |-> called.cb]

\* remove_subtree without the peek: the child is detached at the first symbol
RECURSIVE TrieNode_remove_subtree_mut_nopeek(_, _)
TrieNode_remove_subtree_mut_nopeek(self, key) ==
    IF key # << >>
    THEN LET r == binary_search_by_key(self.children, Head(key))
         IN  IF r.ok THEN [self EXCEPT !.children = VecRemove(@, r.ix)] ELSE self
    ELSE self

\* remove_subtree that clears the children of the node the key ends at
\* instead of detaching that node from its parent
RECURSIVE TrieNode_remove_subtree_mut_below(_, _)
TrieNode_remove_subtree_mut_below(self, key) ==
    IF key # << >>
    THEN LET next == Head(key)
             r == binary_search_by_key(self.children, next)
         IN  IF r.ok
             THEN [self EXCEPT !.children[r.ix + 1] =
                      <<next, TrieNode_remove_subtree_mut_below(@[2], Tail(key))>>]
             ELSE self
    ELSE [self EXCEPT !.children = << >>]

RECURSIVE TrieNode_remove_subtree(_, _)
TrieNode_remove_subtree(self, key) ==
    IF key # << >>
    THEN LET next == Head(key)
             r == binary_search_by_key(self.children, next)
         IN  IF r.ok
             THEN IF Tail(key) = << >>
                  THEN [self EXCEPT !.children = VecRemove(@, r.ix)]
                  ELSE [self EXCEPT !.children[r.ix + 1] =
                           <<next, TrieNode_remove_subtree(@[2], Tail(key))>>]
             ELSE self
    ELSE self

\* find_node: Some(node) or None
RECURSIVE TrieNode_find_node(_, _)
TrieNode_find_node(self, key) ==
    IF key # << >>
    THEN LET r == binary_search_by_key(self.children, Head(key))
         IN  IF r.ok THEN TrieNode_find_node(self.children[r.ix + 1][2], Tail(key))
             ELSE None
    ELSE Some(self)

\* find_node_mut(key).map(|n| n.set_value(value)): self afterwards
RECURSIVE TrieNode_find_node_mut_set(_, _, _)
TrieNode_find_node_mut_set(self, key, value) ==
    IF key # << >>
    THEN LET r == binary_search_by_key(self.children, Head(key))
         IN  IF r.ok
             THEN [self EXCEPT !.children[r.ix + 1] =
                      <<@[1], TrieNode_find_node_mut_set(@[2], Tail(key), value)>>]
             ELSE self
    ELSE TrieNode_set_value(self, value)

\* ---------------------------------------------------------------- state machine
ArenaState == [nodes |-> nodes, values |-> values]

Init ==
    /\ nodes = Trie_new.nodes
    /\ values = Trie_new.values
    /\ stack = NoIter
    /\ yielded = << >>
    /\ popped = << >>
    /\ root = TrieNode_new
    /\ op = Call("new", << >>, 0, << >>, << >>)
    /\ steps = 0

\* ---- Trie (arena) and TrieIterator; a live iterator borrows the trie, so
\* no mutating call can be made until it is dropped.
Insert(key, value) ==
    /\ stack = NoIter
    /\ steps < MaxOps
    /\ LET r == Trie_insert(nodes, values, key, value)
       IN  /\ nodes' = r.nodes
           /\ values' = r.values
    /\ op' = Call("insert", key, value, << >>, ArenaState)
    /\ steps' = steps + 1
    /\ UNCHANGED <<stack, yielded, popped, root>>

Clear ==
    /\ stack = NoIter
    /\ steps < MaxOps
    /\ LET r == Trie_clear(nodes, values)
       IN  /\ nodes' = r.nodes
           /\ values' = r.values
    /\ op' = Call("clear", << >>, 0, << >>, ArenaState)
    /\ steps' = steps + 1
    /\ UNCHANGED <<stack, yielded, popped, root>>

SetValue(key, value) ==
    /\ stack = NoIter
    /\ steps < MaxOps
    /\ LET r == Trie_set_value(nodes, values, key, value)
       IN  /\ nodes' = r.nodes
           /\ values' = r.values
           /\ op' = Call("set_value", key, value, r.res, ArenaState)
    /\ steps' = steps + 1
    /\ UNCHANGED <<stack, yielded, popped, root>>

\* ---- the &self methods: the trie is left as it is, the result is recorded
IsEmpty ==
    /\ stack = NoIter
    /\ op' = Call("is_empty", << >>, 0, is_empty(nodes), ArenaState)
    /\ UNCHANGED <<nodes, values, stack, yielded, popped, root, steps>>

ContainsKey(key) ==
    /\ stack = NoIter
    /\ op' = Call("contains_key", key, 0, contains_key(nodes, values, key), ArenaState)
    /\ UNCHANGED <<nodes, values, stack, yielded, popped, root, steps>>

Get(key) ==
    /\ stack = NoIter
    /\ op' = Call("get", key, 0, get(nodes, values, key), ArenaState)
    /\ UNCHANGED <<nodes, values, stack, yielded, popped, root, steps>>

FindPrefixes(key) ==
    /\ stack = NoIter
    /\ op' = Call("find_prefixes", key, 0, find_prefixes(nodes, values, key),
                  ArenaState)
    /\ UNCHANGED <<nodes, values, stack, yielded, popped, root, steps>>

FindLongestPrefix(key) ==
    /\ stack = NoIter
    /\ op' = Call("find_longest_prefix", key, 0,
                  find_longest_prefix(nodes, values, key), ArenaState)
    /\ UNCHANGED <<nodes, values, stack, yielded, popped, root, steps>>

FindPostfixes(key) ==
    /\ stack = NoIter
    /\ op' = Call("find_postfixes", key, 0, find_postfixes(nodes, values, key),
                  ArenaState)
    /\ UNCHANGED <<nodes, values, stack, yielded, popped, root, steps>>

Iter ==
    /\ stack = NoIter
    /\ stack' = TrieIterator_new
    /\ yielded' = << >>
    /\ popped' = << >>
    /\ op' = Call("iter", << >>, 0, << >>, ArenaState)
    /\ UNCHANGED <<nodes, values, root, steps>>

\* one call of next(); the caller's loop keeps what it is handed
IterNext ==
    /\ stack # NoIter
    /\ LET r == TrieIterator_next(nodes, values, stack)
       IN  /\ stack' = r.stack
           /\ yielded' = IF ~r.res.panic /\ r.res.val # None
                         THEN Append(yielded, r.res.val[1]) ELSE yielded
           /\ popped' = popped \o r.pops
           /\ op' = Call("next", << >>, 0, r.res, ArenaState)
    /\ UNCHANGED <<nodes, values, root, steps>>

IterDrop ==
    /\ stack # NoIter
    /\ stack' = NoIter
    /\ yielded' = << >>
    /\ popped' = << >>
    /\ op' = Call("drop", << >>, 0, << >>, ArenaState)
    /\ UNCHANGED <<nodes, values, root, steps>>

Next ==
    \/ \E key \in Keys, value \in Val : Insert(key, value)
    \/ Clear
    \/ \E key \in Keys, value \in Val : SetValue(key, value)
    \/ IsEmpty
    \/ \E key \in Keys : ContainsKey(key)
    \/ \E key \in Keys : Get(key)
    \/ \E key \in Keys : FindPrefixes(key)
    \/ \E key \in Keys : FindLongestPrefix(key)
    \/ \E key \in Keys : FindPostfixes(key)
    \/ Iter
    \/ IterNext
    \/ IterDrop

Spec == Init /\ [][Next]_vars

\* ---- the recursive TrieNode, driven through its public methods on one root
NodeInsert(key, cb) ==
    /\ steps < MaxOps
    /\ LET r == TrieNode_insert(root, enumerate(key), cb, None)
       IN  /\ root' = r.node
           /\ op' = Call("node_insert", key, cb.v, [ret |-> r.res, cb |-> r.cb], root)
    /\ steps' = steps + 1
    /\ UNCHANGED <<nodes, values, stack, yielded, popped>>

NodeRemoveSubtree(key) ==
    /\ steps < MaxOps
    /\ root' = TrieNode_remove_subtree(root, key)
    /\ op' = Call("remove_subtree", key, 0, << >>, root)
    /\ steps' = steps + 1
    /\ UNCHANGED <<nodes, values, stack, yielded, popped>>

NodeSetValue(key, value) ==
    /\ steps < MaxOps
    /\ root' = TrieNode_find_node_mut_set(root, key, value)
    /\ op' = Call("node_set_value", key, value, << >>, root)
    /\ steps' = steps + 1
    /\ UNCHANGED <<nodes, values, stack, yielded, popped>>

NodeFind(key) ==
    /\ op' = Call("find_node", key, 0, TrieNode_find_node(root, key), root)
    /\ UNCHANGED <<nodes, values, stack, yielded, popped, root, steps>>

NextNode ==
    \/ \E key \in Keys : NodeInsert(key, CbNoop)
    \/ \E key \in Keys, value \in Val : NodeInsert(key, CbStore(TerminalCur(key), value))
    \/ \E key \in Keys : NodeRemoveSubtree(key)
    \/ \E key \in Keys, value \in Val : NodeSetValue(key, value)
    \/ \E key \in Keys : NodeFind(key)

SpecNode == Init /\ [][NextNode]_vars

\* ---------------------------------------------------------------- properties
\* The arena trie as it was when the last call started.
PreNodes == op.pre.nodes
PreValues == op.pre.values

Prefix(key, n) == SubSeq(key, 1, n)
IsPrefixOf(p, key) == Len(p) <= Len(key) /\ Prefix(key, Len(p)) = p

\* C1 (round trip): right after insert(K, V), get(K) returns V and
\* contains_key(K) is true, for every key K (the empty key included) and
\* every value V, from every reachable trie.
C1_RoundTrip ==
    op.kind = "insert" =>
        /\ get(nodes, values, op.key) = Some(op.value)
        /\ contains_key(nodes, values, op.key)

\* insert of the empty key into a trie that already holds other nodes
C1_Witness ==
    /\ op.kind = "insert"
    /\ op.key = << >>
    /\ Len(PreNodes) > 1
    /\ get(PreNodes, PreValues, << >>) = None

\* C2 (overwrite): inserting an already stored key K with a value V2 makes
\* get(K) return V2 and creates no structure: same number of nodes, same
\* children list in every node, same number of stored values.
C2_Overwrite ==
    (op.kind = "insert" /\ get(PreNodes, PreValues, op.key) # None) =>
        /\ get(nodes, values, op.key) = Some(op.value)
        /\ Len(nodes) = Len(PreNodes)
        /\ \A i \in 1..Len(nodes) : nodes[i].children = PreNodes[i].children
        /\ Len(values) = Len(PreValues)

\* a stored key is inserted again with a different value
C2_Witness ==
    /\ op.kind = "insert"
    /\ get(PreNodes, PreValues, op.key) # None
    /\ get(PreNodes, PreValues, op.key) # Some(op.value)
    /\ Len(PreValues) > 1

\* C3 (empty/clear): a new trie is_empty; after any insert it is not; after
\* clear it is again, and no key is contained or retrievable.
C3_EmptyClear ==
    /\ op.kind = "new" => is_empty(nodes)
    /\ op.kind = "insert" => ~is_empty(nodes)
    /\ op.kind = "clear" =>
           /\ is_empty(nodes)
           /\ \A k \in Keys : /\ ~contains_key(nodes, values, k)
                              /\ get(nodes, values, k) = None

\* clear of a trie that holds two keys
C3_Witness ==
    /\ op.kind = "clear"
    /\ Cardinality({k \in Keys : contains_key(PreNodes, PreValues, k)}) = 2

\* C4 (set_value): NotFound and an untouched trie when no node is at path K
\* or the node there has no value; otherwise Ok, get(K) returns V and no
\* node is created.
C4_SetValue ==
    op.kind = "set_value" =>
        LET n == find_node(PreNodes, op.key)
            missing == \/ n = None
                       \/ ~TrieNode_may_be_leaf(PreNodes[n[1] + 1])
        IN  IF missing
            THEN /\ op.res[1] = "NotFound"
                 /\ nodes = PreNodes
                 /\ values = PreValues
            ELSE /\ op.res = Ok
                 /\ get(nodes, values, op.key) = Some(op.value)
                 /\ nodes = PreNodes
                 /\ Len(values) = Len(PreValues)
                 /\ \A k \in Keys \ {op.key} :
                        get(nodes, values, k) = get(PreNodes, PreValues, k)

\* set_value on a node that exists but is only a branching point
C4_Witness ==
    /\ op.kind = "set_value"
    /\ find_node(PreNodes, op.key) # None
    /\ op.res[1] = "NotFound"

\* the values of the stored keys among the first n non-empty prefixes of
\* key, shortest prefix first
RECURSIVE StoredPrefixValues(_, _, _, _)
StoredPrefixValues(ns, vs, key, n) ==
    IF n = 0 THEN << >>
    ELSE StoredPrefixValues(ns, vs, key, n - 1)
         \o get(ns, vs, Prefix(key, n))

\* C5 (find_prefixes): the call returns exactly the values of the stored
\* keys that are non-empty prefixes of Q, shortest first; the empty key's
\* value is never included; the result is empty when there is none.
C5_FindPrefixes ==
    op.kind = "find_prefixes" =>
        /\ ~op.res.panic
        /\ op.res.val = StoredPrefixValues(nodes, values, op.key, Len(op.key))

\* find_prefixes on a trie that has its root node: the statement of C5 holds
FindPrefixes_WithRoot ==
    (op.kind = "find_prefixes" /\ ~is_empty(nodes)) =>
        /\ ~op.res.panic
        /\ op.res.val = StoredPrefixValues(nodes, values, op.key, Len(op.key))

FindPrefixes_WithRoot_Witness ==
    /\ op.kind = "find_prefixes"
    /\ ~op.res.panic
    /\ Len(op.res.val) = 2
    /\ get(nodes, values, << >>) # None

\* the length of the longest stored non-empty prefix of key, 0 if none
LongestStoredPrefix(ns, vs, key) ==
    LET S == {n \in 1..Len(key) : get(ns, vs, Prefix(key, n)) # None}
    IN  IF S = {} THEN 0 ELSE CHOOSE n \in S : \A m \in S : m <= n

\* C6 (find_longest_prefix): the value of the longest stored non-empty key
\* that is a prefix of Q; absent when there is none, also when the whole
\* path of Q exists through value-less nodes.
C6_LongestPrefix ==
    op.kind = "find_longest_prefix" =>
        LET n == LongestStoredPrefix(nodes, values, op.key)
        IN  op.res = IF n = 0 THEN None
                     ELSE get(nodes, values, Prefix(op.key, n))

\* the path of Q exists, no node on it below the root has a value, and the
\* empty key is stored
C6_Witness ==
    /\ op.kind = "find_longest_prefix"
    /\ op.key # << >>
    /\ find_node(nodes, op.key) # None
    /\ get(nodes, values, << >>) # None
    /\ op.res = None

\* two stored prefixes with different values: the longer one is returned
C6_WitnessTwo ==
    /\ op.kind = "find_longest_prefix"
    /\ Len(op.key) = 2
    /\ get(nodes, values, Prefix(op.key, 1)) # None
    /\ get(nodes, values, op.key) # None
    /\ get(nodes, values, op.key) # get(nodes, values, Prefix(op.key, 1))

\* the values of the stored keys that extend p, in pre-order over the keys:
\* p itself, then the extensions by each symbol in ascending symbol order
RECURSIVE StoredBelow(_, _, _)
RECURSIVE StoredBelowFrom(_, _, _, _)
StoredBelowFrom(ns, vs, p, c) ==
    IF c > MaxSym \/ Len(p) >= MaxLen THEN << >>
    ELSE StoredBelow(ns, vs, Append(p, c)) \o StoredBelowFrom(ns, vs, p, c + 1)

StoredBelow(ns, vs, p) == get(ns, vs, p) \o StoredBelowFrom(ns, vs, p, 1)

\* C7 (find_postfixes): exactly the values of the stored keys that have P
\* as a prefix, a key before its extensions and sibling subtrees in
\* ascending symbol order; empty when no node is at path P.
C7_FindPostfixes ==
    op.kind = "find_postfixes" =>
        /\ op.res = StoredBelow(nodes, values, op.key)
        /\ find_node(nodes, op.key) = None => op.res = << >>

\* three values are listed from a node whose children were linked in
\* descending symbol order (the larger symbol was inserted first)
C7_Witness ==
    /\ op.kind = "find_postfixes"
    /\ Len(op.res) = 3
    /\ LET n == find_node(nodes, op.key)[1]
           ch == nodes[n + 1].children
       IN  /\ Len(ch) = 2
           /\ ch[1][2] > ch[2][2]

\* no node at path P although a shorter prefix of P is stored
C7_WitnessAbsent ==
    /\ op.kind = "find_postfixes"
    /\ Len(op.key) = 2
    /\ find_node(nodes, op.key) = None
    /\ get(nodes, values, Prefix(op.key, 1)) # None

\* the (key, value) pairs the trie stores
StoredPairs(ns, vs) ==
    {<<k, get(ns, vs, k)[1]>> : k \in {k \in Keys : get(ns, vs, k) # None}}

\* an iterator's drain has ended: next() returned None or did not return
DrainEnded == op.kind = "next" /\ (op.res.panic \/ op.res.val = None)

\* C8 (iterator completeness): on every reachable trie (the new and the
\* cleared one included) draining iter() yields exactly one (key, value)
\* pair per stored key, the value being get(key), and no other pair.
C8_IterComplete ==
    DrainEnded =>
        /\ ~op.res.panic
        /\ Len(yielded) = Cardinality(StoredPairs(nodes, values))
        /\ {yielded[i] : i \in 1..Len(yielded)} = StoredPairs(nodes, values)

\* draining the iterator of a trie that has its root node: the statement of
\* C8 holds
IterComplete_WithRoot ==
    (DrainEnded /\ ~is_empty(nodes)) =>
        /\ ~op.res.panic
        /\ Len(yielded) = Cardinality(StoredPairs(nodes, values))
        /\ {yielded[i] : i \in 1..Len(yielded)} = StoredPairs(nodes, values)

IterComplete_WithRoot_Witness ==
    /\ DrainEnded
    /\ Len(yielded) = 3

\* ---- the recursive TrieNode (specification SpecNode)
\* what a lookup of key in the tree under rt finds: the value of the node at
\* path key, None when there is no such node or it has no value
NodeValueAt(rt, key) ==
    LET n == TrieNode_find_node(rt, key)
    IN  IF n = None THEN None ELSE TrieNode_get_value(n[1])

\* the statement of C9 as claimed, for every key K, the empty key included:
\* after remove_subtree(K) neither K nor any key that K is a prefix of is
\* stored, and every other key has the value it had.
C9_Removal_AnyKey ==
    op.kind = "remove_subtree" =>
        \A k \in Keys :
            IF IsPrefixOf(op.key, k)
            THEN NodeValueAt(root, k) = None
            ELSE NodeValueAt(root, k) = NodeValueAt(op.pre, k)

\* C9 (removal), amended: after remove_subtree(K) with K non-empty, neither
\* K nor any key that has K as a strict prefix is stored, and every key
\* that does not have K as a prefix has the value it had before.
C9_Removal ==
    (op.kind = "remove_subtree" /\ op.key # << >>) =>
        \A k \in Keys :
            IF IsPrefixOf(op.key, k)
            THEN NodeValueAt(root, k) = None
            ELSE NodeValueAt(root, k) = NodeValueAt(op.pre, k)

\* K has one symbol; an extension of K and a key outside K were stored
C9_Witness ==
    /\ op.kind = "remove_subtree"
    /\ Len(op.key) = 1
    /\ \E k \in Keys : /\ Len(k) = 2
                       /\ IsPrefixOf(op.key, k)
                       /\ NodeValueAt(op.pre, k) # None
    /\ \E k \in Keys : /\ ~IsPrefixOf(op.key, k)
                       /\ NodeValueAt(op.pre, k) # None
                       /\ NodeValueAt(root, k) # None

\* C10 (removal frame): remove_subtree(K) leaves the whole tree as it was
\* when no node is at path K, and when K is the empty key.
C10_RemoveNoop ==
    (/\ op.kind = "remove_subtree"
     /\ \/ op.key = << >>
        \/ TrieNode_find_node(op.pre, op.key) = None) =>
        root = op.pre

\* the first symbol of K leads to a stored key, the second to no node
C10_Witness ==
    /\ op.kind = "remove_subtree"
    /\ Len(op.key) = 2
    /\ TrieNode_find_node(op.pre, op.key) = None
    /\ NodeValueAt(op.pre, Prefix(op.key, 1)) # None
    /\ Len(op.pre.children) = 2

\* remove_subtree of the empty key on a tree that stores the empty key
C10_WitnessEmptyKey ==
    /\ op.kind = "remove_subtree"
    /\ op.key = << >>
    /\ op.pre.value # None
    /\ op.pre.children # << >>

\* the &self queries of the Trie
ReadKinds ==
    {"get", "contains_key", "find_prefixes", "find_longest_prefix", "find_postfixes"}

\* C11 (reads never abort): get, contains_key, find_prefixes,
\* find_longest_prefix and find_postfixes run to completion on every
\* reachable trie with every key, and on a trie without any stored key (new,
\* or just cleared) report an empty or absent result.
C11_ReadsComplete ==
    op.kind \in ReadKinds =>
        /\ op.kind = "find_prefixes" => ~op.res.panic
        /\ StoredPairs(nodes, values) = {} =>
               /\ op.kind = "get" => op.res = None
               /\ op.kind = "contains_key" => op.res = FALSE
               /\ op.kind = "find_prefixes" => op.res = Ret(<< >>)
               /\ op.kind = "find_longest_prefix" => op.res = None
               /\ op.kind = "find_postfixes" => op.res = << >>

\* the four guarded queries: the statement of C11 holds for them
GuardedReadsComplete ==
    (op.kind \in ReadKinds \ {"find_prefixes"} /\ StoredPairs(nodes, values) = {}) =>
        /\ op.kind = "get" => op.res = None
        /\ op.kind = "contains_key" => op.res = FALSE
        /\ op.kind = "find_longest_prefix" => op.res = None
        /\ op.kind = "find_postfixes" => op.res = << >>

GuardedReadsComplete_Witness ==
    /\ op.kind = "find_postfixes"
    /\ op.key # << >>
    /\ nodes = << >>
    /\ steps > 1

\* the children list of a node and of every node below it is strictly
\* ascending by symbol
RECURSIVE SortedBelow(_)
SortedBelow(node) ==
    /\ \A i \in 1..(Len(node.children) - 1) :
           node.children[i][1] < node.children[i + 1][1]
    /\ \A i \in 1..Len(node.children) : SortedBelow(node.children[i][2])

\* C12 (sortedness): after any sequence of inserts and subtree removals the
\* children list of every node, at every depth, is strictly ascending by
\* symbol, so no symbol appears twice among a node's children.
C12_Sorted == SortedBelow(root)

\* a child was inserted in front of an existing child with a larger symbol,
\* below the root
C12_Witness ==
    /\ op.kind = "node_insert"
    /\ Len(op.key) = 2
    /\ LET before == TrieNode_find_node(op.pre, Prefix(op.key, 1))
           after == TrieNode_find_node(root, Prefix(op.key, 1))
       IN  /\ before # None
           /\ Len(before[1].children) = 1
           /\ Len(after[1].children) = 2
           /\ before[1].children[1][1] > op.key[2]

\* the statement of C13 as claimed: is_empty() is true exactly when the root
\* node has no children (a trie without a root node has none).
C13_EmptyIffNoChildren ==
    op.kind = "is_empty" =>
        (op.res <=> (nodes = << >> \/ nodes[1].children = << >>))

\* C13, amended: is_empty() is true exactly when the trie has no node at
\* all, which is the case exactly when no key is stored; it is false
\* whenever the root has a child, and also after inserting only the empty
\* key, when the root exists and has no children.
C13_EmptyIffNoNode ==
    op.kind = "is_empty" =>
        /\ op.res <=> (StoredPairs(nodes, values) = {})
        /\ (nodes # << >> /\ nodes[1].children # << >>) => ~op.res
        /\ (nodes # << >> /\ nodes[1].children = << >>) => ~op.res

\* is_empty() on a trie that holds only the empty key
C13_Witness ==
    /\ op.kind = "is_empty"
    /\ Len(nodes) = 1
    /\ get(nodes, values, << >>) # None
    /\ op.res = FALSE

\* the stored (key, value) pairs with keys extending p, keys in pre-order
RECURSIVE PairsBelow(_, _, _)
RECURSIVE PairsBelowFrom(_, _, _, _)
PairsBelowFrom(ns, vs, p, c) ==
    IF c > MaxSym \/ Len(p) >= MaxLen THEN << >>
    ELSE PairsBelow(ns, vs, Append(p, c)) \o PairsBelowFrom(ns, vs, p, c + 1)

PairsBelow(ns, vs, p) ==
    (IF get(ns, vs, p) # None THEN << <<p, get(ns, vs, p)[1]>> >> ELSE << >>)
    \o PairsBelowFrom(ns, vs, p, 1)

\* the trie obtained by inserting the pairs, in their order, into t
RECURSIVE InsertAll(_, _)
InsertAll(t, pairs) ==
    IF pairs = << >> THEN t
    ELSE InsertAll(Trie_insert(t.nodes, t.values, pairs[1][1], pairs[1][2]),
                   Tail(pairs))

\* a second trie with the same key-to-value mapping as (ns, vs), built from
\* a new trie by inserting the keys in ascending order
Rebuilt(ns, vs) == InsertAll(Trie_new, PairsBelow(ns, vs, << >>))

\* C14 (insertion-order independence): a trie and the trie built from the
\* same final key-to-value mapping in another insertion order answer
\* find_postfixes, get, contains_key, find_prefixes and find_longest_prefix
\* identically for every key, element for element and in the same order.
C14_OrderIndependent ==
    LET t == Rebuilt(nodes, values)
    IN  \A k \in Keys :
            /\ find_postfixes(nodes, values, k) = find_postfixes(t.nodes, t.values, k)
            /\ get(nodes, values, k) = get(t.nodes, t.values, k)
            /\ contains_key(nodes, values, k) = contains_key(t.nodes, t.values, k)
            /\ find_prefixes(nodes, values, k) = find_prefixes(t.nodes, t.values, k)
            /\ find_longest_prefix(nodes, values, k)
                   = find_longest_prefix(t.nodes, t.values, k)

\* find_postfixes lists three values from a trie whose arena differs from
\* the arena of the trie rebuilt in ascending key order
C14_Witness ==
    /\ op.kind = "find_postfixes"
    /\ Len(op.res) = 3
    /\ nodes # Rebuilt(nodes, values).nodes
    /\ values # Rebuilt(nodes, values).values

\* C15 (contains_key and get agree): for every key, contains_key is true
\* exactly when get returns a value; both are negative when some symbol of
\* the key has no child (no node for the key) and when the node of the key
\* exists but carries no value.
C15_ContainsIffGet ==
    /\ op.kind = "contains_key" => (op.res <=> get(nodes, values, op.key) # None)
    /\ op.kind = "get" => (op.res # None <=> contains_key(nodes, values, op.key))
    /\ \A k \in Keys :
         LET n == find_node(nodes, k)
         IN  /\ contains_key(nodes, values, k) <=> get(nodes, values, k) # None
             /\ n = None =>
                  ~contains_key(nodes, values, k) /\ get(nodes, values, k) = None
             /\ (n # None /\ TrieNode_get_value(nodes[n[1] + 1]) = None) =>
                  ~contains_key(nodes, values, k) /\ get(nodes, values, k) = None

\* contains_key has answered false for a key whose node exists without a
\* value, in a trie where another key is missing altogether
C15_Witness ==
    /\ op.kind = "contains_key"
    /\ find_node(nodes, op.key) # None
    /\ op.res = FALSE
    /\ \E k \in Keys : find_node(nodes, k) = None
    /\ \E k \in Keys : contains_key(nodes, values, k)

\* C16 (clear equals new): right after clear() the trie is in the state of a
\* trie made by new(): no nodes and no values, is_empty() true, and every
\* later insert gives what it gives on a new trie.
C16_ClearIsNew ==
    op.kind = "clear" =>
        /\ ArenaState = Trie_new
        /\ is_empty(nodes)
        /\ \A k \in Keys, v \in Val :
               Trie_insert(nodes, values, k, v)
                   = Trie_insert(Trie_new.nodes, Trie_new.values, k, v)

\* clear() has acted on a trie of at least three nodes and two values
C16_Witness ==
    /\ op.kind = "clear"
    /\ Len(op.pre.nodes) >= 3
    /\ Len(op.pre.values) >= 2
    /\ nodes = << >>

\* C17 (callback of the node-level insert): for a key of n symbols the
\* callback is invoked exactly n + 1 times, in order of increasing depth:
\* first on the root, before any symbol is consumed, then once on the node
\* reached by the first k symbols for k = 1..n, be it the node that was
\* already there or a newly created one; the invocation at depth k receives
\* the zero-based position that came with the k-th symbol.
C17_CallbackPerNode ==
    op.kind = "node_insert" =>
        LET log == op.res.cb.log
            n == Len(op.key)
        IN  /\ Len(log) = n + 1
            /\ log[1] = <<None, op.pre>>
            /\ \A k \in 1..n :
                 LET before == TrieNode_find_node(op.pre, Prefix(op.key, k))
                 IN  /\ log[k + 1][1] = Some(enumerate(op.key)[k][1])
                     /\ log[k + 1][1] = Some(k - 1)
                     /\ log[k + 1][2] = IF before # None THEN before[1]
                                        ELSE TrieNode_new
                     /\ TrieNode_find_node(root, Prefix(op.key, k)) # None

\* an insert of a two-symbol key whose first node existed, with a value, and
\* whose second node was created by the call
C17_Witness ==
    /\ op.kind = "node_insert"
    /\ Len(op.key) = 2
    /\ NodeValueAt(op.pre, Prefix(op.key, 1)) # None
    /\ TrieNode_find_node(op.pre, op.key) = None
    /\ Len(op.res.cb.log) = 3

\* ---- termination of the iterator
\* the ids of the nodes reachable from node id through children lists
RECURSIVE ReachableFrom(_, _)
ReachableFrom(ns, id) ==
    {id} \cup UNION {ReachableFrom(ns, ns[id + 1].children[i][2]) :
                        i \in 1..Len(ns[id + 1].children)}

\* the nodes reachable from the root; none when there is no root
Reachable(ns) == IF ns = << >> THEN {} ELSE ReachableFrom(ns, 0)

NodesWithValue(ns) == {i \in 1..Len(ns) : TrieNode_may_be_leaf(ns[i])}

NoRepeats(s) == \A i, j \in 1..Len(s) : s[i] = s[j] => i = j

\* C18 (iterator termination): on any trie, the new one included, the calls
\* of next() on one iterator complete; they pop every node reachable from
\* the root exactly once; when next() has returned None the stack is empty,
\* every reachable node has been popped and as many items were yielded as
\* there are nodes with a value; with an empty stack next() returns None and
\* leaves the stack empty, so every later call returns None too.
C18_IterTerminates ==
    /\ op.kind = "next" => ~op.res.panic
    /\ stack # NoIter =>
         /\ NoRepeats(popped)
         /\ {popped[i] : i \in 1..Len(popped)} \subseteq Reachable(nodes)
         /\ stack = << >> =>
              LET r == TrieIterator_next(nodes, values, stack)
              IN  r.res = Ret(None) /\ r.stack = << >> /\ r.pops = << >>
    /\ DrainEnded =>
         /\ stack = << >>
         /\ {popped[i] : i \in 1..Len(popped)} = Reachable(nodes)
         /\ Len(yielded) = Cardinality(NodesWithValue(nodes))

\* the same for the iterator of a trie that has its root node
IterTerminates_WithRoot ==
    ~is_empty(nodes) =>
        /\ op.kind = "next" => ~op.res.panic
        /\ stack # NoIter =>
             /\ NoRepeats(popped)
             /\ {popped[i] : i \in 1..Len(popped)} \subseteq Reachable(nodes)
             /\ stack = << >> =>
                  LET r == TrieIterator_next(nodes, values, stack)
                  IN  r.res = Ret(None) /\ r.stack = << >> /\ r.pops = << >>
        /\ DrainEnded =>
             /\ stack = << >>
             /\ {popped[i] : i \in 1..Len(popped)} = Reachable(nodes)
             /\ Len(yielded) = Cardinality(NodesWithValue(nodes))

\* a drain of a trie of four nodes, one of them without a value, has ended
IterTerminates_WithRoot_Witness ==
    /\ DrainEnded
    /\ Len(popped) = 4
    /\ Len(yielded) = 3

\* ---- the shape of the recursive TrieNode tree
\* no node stored as a child, in the tree under n, lacks both value and
\* children
RECURSIVE NoDanglingBelow(_)
NoDanglingBelow(n) ==
    \A i \in 1..Len(n.children) :
        LET c == n.children[i][2]
        IN  /\ ~(c.value = None /\ c.children = << >>)
            /\ NoDanglingBelow(c)

\* C19 (no dangling nodes): after any sequence of node-level inserts and
\* remove_subtree calls, no node stored as a child has both no value and no
\* children.
C19_NoDangling == NoDanglingBelow(root)

\* the same after an insert whose callback stores a value at the node the
\* key ends at, in a tree that had no dangling node
NoDangling_StoringInsert ==
    (/\ op.kind = "node_insert"
     /\ op.res.cb.kind = "store"
     /\ op.res.cb.at = TerminalCur(op.key)
     /\ NoDanglingBelow(op.pre)) => NoDanglingBelow(root)

NoDangling_StoringInsert_Witness ==
    /\ op.kind = "node_insert"
    /\ op.res.cb.kind = "store"
    /\ op.res.cb.at = TerminalCur(op.key)
    /\ Len(op.key) = 2
    /\ op.pre.children # << >>
    /\ NoDanglingBelow(op.pre)

\* remove_subtree has detached the only child of a value-less node and left
\* that node in place, in a tree that had no dangling node
DanglingAfterRemoval ==
    /\ op.kind = "remove_subtree"
    /\ Len(op.key) = 2
    /\ NoDanglingBelow(op.pre)
    /\ ~NoDanglingBelow(root)

\* ---- the shape of the arena
\* the places (node index, position in its children list) that hold id
ParentsOf(ns, id) ==
    {<<i, j>> \in (1..Len(ns)) \X (1..MaxSym) :
        j <= Len(ns[i].children) /\ ns[i].children[j][2] = id}

\* C20 (arena well-formedness): after any sequence of insert, set_value and
\* clear, node 0 is the root whenever there are nodes (it is nobody's child
\* and every node is reachable from it), every child id is an index of the
\* node list, every node other than 0 is the child of exactly one node,
\* every value id is an index of the value list, no two nodes hold the same
\* value id, and the value list is as long as there are nodes with a value.
C20_ArenaWellFormed ==
    /\ \A i \in 1..Len(nodes) : \A j \in 1..Len(nodes[i].children) :
           nodes[i].children[j][2] \in 0..(Len(nodes) - 1)
    /\ nodes # << >> =>
           /\ ParentsOf(nodes, 0) = {}
           /\ Reachable(nodes) = 0..(Len(nodes) - 1)
    /\ \A id \in 1..(Len(nodes) - 1) : Cardinality(ParentsOf(nodes, id)) = 1
    /\ \A i \in NodesWithValue(nodes) :
           TrieNode_get_value(nodes[i])[1] \in 0..(Len(values) - 1)
    /\ \A i, j \in NodesWithValue(nodes) :
           TrieNode_get_value(nodes[i]) = TrieNode_get_value(nodes[j]) => i = j
    /\ Len(values) = Cardinality(NodesWithValue(nodes))

\* insert has overwritten the value of a stored key in an arena of at least
\* three nodes, two of them with a value and one without
C20_Witness ==
    /\ op.kind = "insert"
    /\ get(PreNodes, PreValues, op.key) # None
    /\ Len(nodes) >= 3
    /\ Len(values) >= 2
    /\ Len(values) < Len(nodes)

\* ---- what insert leaves alone
\* C21 (insert frame): insert(K, V) changes the stored value of K only: for
\* every key K2 other than K, get(K2) and contains_key(K2) give after the
\* insert what they gave before it, also when K2 is a prefix or an
\* extension of K.
C21_InsertFrame ==
    op.kind = "insert" =>
        /\ get(nodes, values, op.key) = Some(op.value)
        /\ \A k2 \in Keys \ {op.key} :
             /\ get(nodes, values, k2) = get(PreNodes, PreValues, k2)
             /\ contains_key(nodes, values, k2)
                    = contains_key(PreNodes, PreValues, k2)

\* insert of a one-symbol key between a stored prefix (the empty key) and a
\* stored extension, both holding a value other than the inserted one, plus
\* a key with no node before or after
C21_Witness ==
    /\ op.kind = "insert"
    /\ Len(op.key) = 1
    /\ get(PreNodes, PreValues, << >>) # None
    /\ get(PreNodes, PreValues, << >>) # Some(op.value)
    /\ \E k2 \in Keys :
         /\ Len(k2) = 2
         /\ IsPrefixOf(op.key, k2)
         /\ get(PreNodes, PreValues, k2) # None
         /\ get(PreNodes, PreValues, k2) # Some(op.value)
    /\ \E k2 \in Keys : find_node(nodes, k2) = None

\* ---- the two prefix queries agree
\* C22 (longest prefix is the last prefix): in every trie that is not empty
\* and for every key Q, find_longest_prefix(Q) is absent exactly when
\* find_prefixes(Q) is empty, and otherwise it is the last element of
\* find_prefixes(Q).
C22_LongestIsLast ==
    ~is_empty(nodes) =>
        /\ \A q \in Keys :
             LET p == find_prefixes(nodes, values, q)
                 l == find_longest_prefix(nodes, values, q)
             IN  /\ ~p.panic
                 /\ l = None <=> p.val = << >>
                 /\ p.val # << >> => l = Some(p.val[Len(p.val)])
        /\ op.kind = "find_longest_prefix" =>
             LET p == find_prefixes(nodes, values, op.key)
             IN  op.res = IF p.val = << >> THEN None ELSE Some(p.val[Len(p.val)])
        /\ op.kind = "find_prefixes" =>
             LET l == find_longest_prefix(nodes, values, op.key)
             IN  l = IF op.res.val = << >> THEN None
                     ELSE Some(op.res.val[Len(op.res.val)])

\* find_longest_prefix has answered for a key with two stored prefixes of
\* different values, in a trie that also stores the empty key and in which
\* another key has no stored prefix
C22_Witness ==
    /\ op.kind = "find_longest_prefix"
    /\ op.res # None
    /\ LET p == find_prefixes(nodes, values, op.key)
       IN  ~p.panic /\ Len(p.val) = 2 /\ p.val[1] # p.val[2]
    /\ get(nodes, values, << >>) # None
    /\ \E q \in Keys : q # << >> /\ find_longest_prefix(nodes, values, q) = None

\* ---- one tree level per symbol
\* the number of child links between node 0 and node id
RECURSIVE DepthOf(_, _)
DepthOf(ns, id) ==
    IF id = 0 \/ ParentsOf(ns, id) = {} THEN 0
    ELSE 1 + DepthOf(ns, (CHOOSE pl \in ParentsOf(ns, id) : TRUE)[1] - 1)

\* the paths, within the key bound, at which the arena has a node
Paths(ns) == {p \in Keys : find_node(ns, p) # None}

\* the prefixes, the empty one and the keys themselves included, of the keys
\* the trie stores
StoredKeyPrefixes(ns, vs) ==
    {p \in Keys : \E k \in Keys : get(ns, vs, k) # None /\ IsPrefixOf(p, k)}

\* C23 (one tree level per symbol): after any sequence of inserts into a
\* Trie, the set of root-to-node paths is exactly the set of prefixes (the
\* empty prefix and the keys themselves included) of the inserted keys: a
\* node exists at path P iff P is a prefix of some inserted key, every node
\* is at exactly one path, and the node of a key of n symbols is at depth n.
C23_LevelPerSymbol ==
    /\ Paths(nodes) = StoredKeyPrefixes(nodes, values)
    /\ Cardinality(Paths(nodes)) = Len(nodes)
    /\ \A p \in Paths(nodes) : DepthOf(nodes, find_node(nodes, p)[1]) = Len(p)
    /\ op.kind = "insert" =>
         /\ \A n \in 0..Len(op.key) : Prefix(op.key, n) \in Paths(nodes)
         /\ DepthOf(nodes, find_node(nodes, op.key)[1]) = Len(op.key)
         /\ Paths(nodes) = Paths(PreNodes)
                               \cup {Prefix(op.key, n) : n \in 0..Len(op.key)}

\* insert of a two-symbol key has created the node at depth 2 under an
\* existing node of depth 1, in a trie with a second branch and with a path
\* that has no node
C23_Witness ==
    /\ op.kind = "insert"
    /\ Len(op.key) = 2
    /\ find_node(PreNodes, Prefix(op.key, 1)) # None
    /\ find_node(PreNodes, op.key) = None
    /\ Len(nodes) >= 4
    /\ Paths(nodes) # Keys

====
